---- MODULE Spec2Model ----
(***************************************************************************)
(* DenseTracker::match of dvo_core/src/dense_tracking.cpp: the coarse-to-  *)
(* fine registration loop, its per-level do/while iteration loop, the      *)
(* acceptance test with the revertable poses, the termination criterion    *)
(* and the assembly of the Result.                                         *)
(*                                                                         *)
(* Poses are elements of a finite subgroup of SE(3): the dihedral group of *)
(* the rotations about the z axis by multiples of 2*pi/RotationOrder and   *)
(* the half turns about RotationOrder axes in the xy plane.  It is not     *)
(* abelian, and its exponential map is not injective.  Errors are small    *)
(* integers plus the IEEE values NaN and +inf; the image data (number of   *)
(* valid residuals, log-likelihood, solution of the normal equations) is   *)
(* the environment and is chosen with \E.  The weights and the precision  *)
(* are kept as terms over the kernels that compute them.  Spec is one call *)
(* on a new tracker, SpecCalls a sequence of calls on one tracker, which   *)
(* reuses the buffers points_error, residuals and weights.                 *)
(***************************************************************************)
EXTENDS Integers, Sequences, FiniteSets, TLC

VARIABLES
    cfg,        \* DenseTracker::cfg, fixed during one match call
    guess,      \* the pose the caller passed in result.Transformation
    result,     \* Result: Transformation, Information, LogLikelihood, Levels
    inc,        \* Sophus::SE3d inc
    x,          \* Vector6d x: the increment in the Lie algebra
    initial,    \* Revertable<Sophus::SE3d> initial
    estimate,   \* Revertable<Sophus::SE3d> estimate
    accept,     \* bool accept
    itctx,      \* IterationContext: Level, Iteration, Error, LastError
    success,    \* bool success
    pc,         \* position in match: entry, for, do, level_end, done
    xOrigin,    \* history: the solve (level, iteration) that produced x
    incOrigin,  \* history: the solve that produced inc
    committed,  \* history: the accepted increments of this call, in order
    rejected,   \* history: the origins of the increments rejected so far
    reference,  \* RgbdImagePyramid& reference: its number of candidate points
    points_error, \* DenseTracker::points_error, by its size
    residuals,  \* DenseTracker::residuals, by its size
    weights,    \* DenseTracker::weights
    precision,  \* Eigen::Matrix2f precision
    required    \* history: the largest buffer requirement of the calls so far

buffers == <<points_error, residuals, weights>>

vars == <<cfg, guess, result, inc, x, initial, estimate, accept, itctx,
          success, pc, xOrigin, incOrigin, committed, rejected,
          reference, points_error, residuals, weights, precision, required>>

----------------------------------------------------------------------------
(* Bounds of the model *)

MaxLevel == 1       \* FirstLevel ranges over 0..MaxLevel
MaxIterCfg == 3     \* MaxIterationsPerLevel ranges over 0..MaxIterCfg

----------------------------------------------------------------------------
(* Sophus::SE3d, restricted to a finite dihedral subgroup *)

RotationOrder == 4

Pose(j, f) == [j |-> j, f |-> f]
Poses == {Pose(j, f) : j \in 0..(RotationOrder - 1), f \in {0, 1}}
Identity == Pose(0, 0)

\* operator*: r^j1 s^f1 * r^j2 s^f2
SE3_mul(p, q) ==
    Pose((p.j + (IF p.f = 0 THEN q.j ELSE RotationOrder - q.j)) % RotationOrder,
         (p.f + q.f) % 2)

SE3_inverse(p) ==
    IF p.f = 0 THEN Pose((RotationOrder - p.j) % RotationOrder, 0) ELSE p

\* Tangent vectors: a rotation about z by the angle a (in units of
\* 2*pi/RotationOrder, any winding), or a half turn about in-plane axis a.
ZTangent(a) == [kind |-> "z", a |-> a]
FTangent(a) == [kind |-> "f", a |-> a]
UninitTangent == [kind |-> "uninit", a |-> 0]

SE3_exp(t) ==
    IF t.kind = "z"
    THEN Pose((t.a + 2 * RotationOrder) % RotationOrder, 0)
    ELSE Pose(t.a % RotationOrder, 1)

\* the principal logarithm: angles in (-pi, pi]
SE3_log(p) ==
    IF p.f = 0
    THEN ZTangent(IF 2 * p.j <= RotationOrder THEN p.j ELSE p.j - RotationOrder)
    ELSE FTangent(p.j)

Abs(n) == IF n < 0 THEN -n ELSE n

\* x.lpNorm<Eigen::Infinity>(), in units of 2*pi/RotationOrder
lpNormInf(t) == IF t.kind = "z" THEN Abs(t.a) ELSE RotationOrder \div 2

squaredNorm(t) == lpNormInf(t) * lpNormInf(t)

----------------------------------------------------------------------------
(* IEEE doubles: small integers, the largest finite double, +inf and NaN *)

DblMax == 1000
PosInf == 1001
NaNErr == -1

\* operator< on doubles: every comparison with NaN is false
ErrLess(a, b) == a # NaNErr /\ b # NaNErr /\ a < b

\* operator+ on doubles, the second operand finite
ErrAdd(a, b) == IF a \in {NaNErr, PosInf} THEN a ELSE a + b

----------------------------------------------------------------------------
(* The environment: configurations, guesses and image data *)

TerminationCriteria ==
    {"LogLikelihoodDecreased", "IncrementTooSmall", "IterationsExceeded"}
NoCriterion == "Unset"      \* LevelStats() before the criterion is assigned

\* Config::IsSane: the levels are ordered
IsSane(c) == c.FirstLevel >= c.LastLevel

Configs ==
    {c \in [FirstLevel : 0..MaxLevel, LastLevel : 0..MaxLevel,
            MaxIterationsPerLevel : 0..MaxIterCfg, Precision : {1},
            Mu : {1}, UseInitialEstimate : BOOLEAN] : IsSane(c)}

\* poses a caller passes as the guess: a small rotation whose inverse
\* differs from it, and a half turn that does not commute with it.  The
\* identity guess is the call without UseInitialEstimate.
Guesses == {Pose(1, 0), Pose(0, 1)}

\* reference.select: the number of points selected at a level
PointCounts == {0, 1}

FiniteErrors == {0, 1}
ErrVals == FiniteErrors \cup {PosInf}

\* computeCompleteDataLogLikelihood, negated: the values total_error can
\* take with n valid residuals: finite, or +inf when the float overflows.
\* Without residuals the scale is degenerate and the likelihood is not a
\* number.
TotalErrors(n) == IF n = 0 THEN {NaNErr} ELSE ErrVals

\* A.ldlt().solve(b): the increments the data can produce: one at the
\* Precision threshold, a large one whose principal logarithm is small, and
\* a large half turn
SolvedIncrements ==
    {ZTangent(1), ZTangent(RotationOrder - 1), FTangent(0)}

\* reference.getMaximumNumberOfPoints(level): a level has a quarter of the
\* pixels of the level below it
RECURSIVE getMaximumNumberOfPoints(_, _)
getMaximumNumberOfPoints(ref, level) ==
    IF level = 0 THEN ref ELSE getMaximumNumberOfPoints(ref, level - 1) \div 4

\* the reference pyramids, by the number of candidate points of level 0:
\* a pyramid has candidate points at every level it was built for
References == {r \in {4, 16} : getMaximumNumberOfPoints(r, MaxLevel) > 0}

\* precision.setZero()
ZeroPrecision == [kind |-> "zero", n |-> 0, weights |-> << >>]

\* the float a resize appends, and the 1.0f of std::fill
ZeroWeight == [kind |-> "0.0f", of |-> ZeroPrecision]
UnitWeight == [kind |-> "1.0f", of |-> ZeroPrecision]

\* computeWeightsSse(first_residual, last_residual, weights, mean, precision):
\* the weight the influence function gives a residual under the precision
\* of the iteration before
KernelWeight(prec) == [kind |-> "kernel", of |-> prec]

\* computeScaleSse(first_residual, last_residual, weights, mean).inverse():
\* a function of the n residuals and of their weights
ScaleInverse(n, w) == [kind |-> "scale", n |-> n, weights |-> SubSeq(w, 1, n)]

\* ls.A for n valid points: every point contributes one unit of information
NormalEquationsA(n) == n

UninitInfo == -1            \* EstimateInformation of a fresh IterationStats
GarbageInfo == {0, 1}       \* what a read of uninitialised memory can give
GarbageErr == {0, NaNErr}

----------------------------------------------------------------------------
(* dvo::util::Revertable<T> *)

Revertable(v) == [value |-> v, old |-> Identity]
Revertable_update(r, v) == [value |-> v, old |-> r.value]
Revertable_revert(r) == [value |-> r.old, old |-> r.old]

(* IterationContext *)

IterationsExceeded(it, c) == it.Iteration >= c.MaxIterationsPerLevel
IsFirstIterationOnLevel(it) == it.Iteration = 0

GuessOrigin == [lvl |-> -1, it |-> 0]
Origin(l, i) == [lvl |-> l, it |-> i]

Last(s) == s[Len(s)]
SetLast(s, v) == [s EXCEPT ![Len(s)] = v]

----------------------------------------------------------------------------
(* match, lines 136-199: the entry of the call *)

\* mutant: the flag is ignored and the guess is always used
EntryTransformation_keepsGuess(c, g) == g

\* if(!cfg.UseInitialEstimate) result.Transformation.setIdentity();
EntryTransformation(c, g) == IF c.UseInitialEstimate THEN g ELSE Identity

\* mutant: the buffer is resized to the requirement of every call
Resized_always(size, need) == need

\* if(v.size() < need) v.resize(need): the size after lines 161-164
Resized(size, need) == IF size < need THEN need ELSE size

\* weights after lines 165-166: resize appends value-initialised floats
ResizedWeights(w, need) ==
    [i \in 1..Resized(Len(w), need) |-> IF i <= Len(w) THEN w[i] ELSE ZeroWeight]

Max(a, b) == IF a < b THEN b ELSE a

Init ==
    /\ reference \in References
    /\ points_error = 0
    /\ residuals = 0
    /\ weights = << >>
    /\ precision = ZeroPrecision
    /\ required = 0
    /\ cfg \in Configs
    /\ guess \in Guesses
    /\ result = [Transformation |-> guess, Information |-> UninitInfo,
                 LogLikelihood |-> 0, Levels |-> << >>]
    /\ inc = Identity
    /\ x = ZTangent(0)
    /\ initial = Revertable(Identity)
    /\ estimate = Revertable(Identity)
    /\ accept = TRUE
    /\ itctx = [Level |-> 0, Iteration |-> 0, Error |-> DblMax, LastError |-> DblMax]
    /\ success = FALSE
    /\ pc = "entry"
    /\ xOrigin = GuessOrigin
    /\ incOrigin = GuessOrigin
    /\ committed = << >>
    /\ rejected = {}

MatchEntry ==
    /\ pc = "entry"
    /\ success' = TRUE
    /\ result' = [result EXCEPT !.Transformation = EntryTransformation(cfg, guess)]
    /\ inc' = result'.Transformation
    /\ initial' = Revertable(inc')
    /\ estimate' = Revertable(Identity)
    /\ accept' = TRUE
    /\ itctx' = [itctx EXCEPT !.Level = cfg.FirstLevel]
    /\ LET need == getMaximumNumberOfPoints(reference, cfg.LastLevel)
       IN /\ points_error' = Resized(points_error, need)
          /\ residuals' = Resized(residuals, need)
          /\ weights' = ResizedWeights(weights, need)
          /\ required' = Max(required, need)
    /\ precision' = ZeroPrecision
    /\ pc' = "for"
    /\ UNCHANGED <<cfg, guess, x, xOrigin, incOrigin, committed, rejected,
                   reference>>

(* lines 201-245: the head of the level loop *)

\* mutant: the error of the level before is kept
ResetContext_keepsError(it) == [it EXCEPT !.Iteration = 0]

\* itctx_.Iteration = 0; itctx_.Error = std::numeric_limits<double>::max();
ResetContext(it) == [it EXCEPT !.Iteration = 0, !.Error = DblMax]

LevelBegin ==
    /\ pc = "for"
    /\ itctx.Level >= cfg.LastLevel
    /\ \E points \in PointCounts :
         /\ points <= getMaximumNumberOfPoints(reference, itctx.Level)
         /\ result' = [result EXCEPT !.Levels = Append(@,
                          [Id |-> itctx.Level, ValidPixels |-> points,
                           TerminationCriterion |-> NoCriterion,
                           Iterations |-> << >>])]
    /\ itctx' = ResetContext(itctx)
    /\ precision' = ZeroPrecision
    /\ x' = SE3_log(inc)
    /\ xOrigin' = incOrigin
    /\ pc' = "do"
    /\ UNCHANGED <<cfg, guess, inc, initial, estimate, accept, success,
                   incOrigin, committed, rejected, reference, buffers, required>>

----------------------------------------------------------------------------
(* lines 248-428: one pass through the body of the do/while loop *)

\* mutant: the inverse of the increment is missing
StagedInitial_noInverse(r, i) == Revertable_update(r, SE3_mul(i, r.value))

\* initial.update() = inc.inverse() * initial();
StagedInitial(r, i) == Revertable_update(r, SE3_mul(SE3_inverse(i), r.value))

\* estimate.update() = inc * estimate();
StagedEstimate(r, i) == Revertable_update(r, SE3_mul(i, r.value))

\* iteration_stats.PriorLogLikelihood = cfg.Mu * initial().log().squaredNorm();
PriorLogLikelihood(c, r) == c.Mu * squaredNorm(SE3_log(r.value))

\* mutant: <= in place of <
AcceptIncrement_nonStrict(err, lastErr) ==
    err # NaNErr /\ lastErr # NaNErr /\ err <= lastErr

\* mutant: !(Error >= LastError), which a NaN error passes
AcceptIncrement_acceptsNaN(err, lastErr) ==
    err = NaNErr \/ ErrLess(err, lastErr)

\* accept = itctx_.Error < itctx_.LastError;
AcceptIncrement(err, lastErr) == ErrLess(err, lastErr)

\* mutant: initial.revert() is missing
RejectedInitial_keepsStaged(r) == r

\* mutant: estimate.revert() is missing
RejectedEstimate_keepsStaged(r) == r

\* if(!accept) { initial.revert(); estimate.revert(); break; }
RejectedInitial(r) == Revertable_revert(r)
RejectedEstimate(r) == Revertable_revert(r)

\* A = ls.A.cast<double>() + cfg.Mu * Matrix6d::Identity();
EstimateInformation(c, n) == NormalEquationsA(n) + c.Mu

\* mutant: the loop condition without the Precision test
LoopContinues_ignoresPrecision(acc, xv, it, c) ==
    acc /\ ~IterationsExceeded(it, c)

\* mutant: the loop condition without the iteration limit
LoopContinues_ignoresLimit(acc, xv, it, c) ==
    acc /\ lpNormInf(xv) > c.Precision

\* while(accept && x.lpNorm<Eigen::Infinity>() > cfg.Precision && !itctx_.IterationsExceeded());
LoopContinues(acc, xv, it, c) ==
    acc /\ lpNormInf(xv) > c.Precision /\ ~IterationsExceeded(it, c)

\* level_stats.Iterations.push_back(IterationStats()) and the fields every
\* iteration fills in
NewIterationStats(id, n, err, prior) ==
    [Id |-> id, ValidConstraints |-> n, TDistributionLogLikelihood |-> err,
     PriorLogLikelihood |-> prior, EstimateIncrement |-> UninitTangent,
     EstimateInformation |-> UninitInfo]

PushIteration(res, stats) ==
    [res EXCEPT !.Levels = SetLast(@,
        [Last(@) EXCEPT !.Iterations = Append(@, stats)])]

\* mutant: the weights of the iteration before are kept
IterationWeights_keepsStale(it, w, n, kernel) ==
    IF IsFirstIterationOnLevel(it) THEN w
    ELSE [i \in 1..Len(w) |-> IF i <= n THEN kernel ELSE w[i]]

\* lines 276-283: weights[0, n) is filled with 1.0f in the first iteration
\* of a level and written by computeWeightsSse in the later ones
IterationWeights(it, w, n, kernel) ==
    [i \in 1..Len(w) |->
        IF i > n THEN w[i]
        ELSE IF IsFirstIterationOnLevel(it) THEN UnitWeight ELSE kernel]

\* mutant: the first iteration of a level leaves the precision alone
IterationPrecision_skipsFirst(it, prec, n, w) ==
    IF IsFirstIterationOnLevel(it) THEN prec ELSE ScaleInverse(n, w)

\* line 285: precision = computeScaleSse(...).inverse(), with the weights
\* of this iteration
IterationPrecision(it, prec, n, w) == ScaleInverse(n, w)

\* the iteration whose error is not below the last one: revert and break
IterationRejected ==
    /\ pc = "do"
    /\ \E n \in 0..Last(result.Levels).ValidPixels : \E err \in TotalErrors(n) :
         LET newInc == SE3_exp(x)
             kernel == KernelWeight(precision)
             stInitial == StagedInitial(initial, newInc)
             stEstimate == StagedEstimate(estimate, newInc)
         IN /\ ~AcceptIncrement(err, itctx.Error)
            /\ weights' = IterationWeights(itctx, weights, n, kernel)
            /\ precision' = IterationPrecision(itctx, precision, n, weights')
            /\ inc' = newInc
            /\ incOrigin' = xOrigin
            /\ result' = PushIteration(result,
                   NewIterationStats(itctx.Iteration, n, err,
                                     PriorLogLikelihood(cfg, stInitial)))
            /\ itctx' = [itctx EXCEPT !.LastError = itctx.Error, !.Error = err]
            /\ accept' = FALSE
            /\ initial' = RejectedInitial(stInitial)
            /\ estimate' = RejectedEstimate(stEstimate)
            /\ rejected' = rejected \cup {xOrigin}
            /\ pc' = "level_end"
    /\ UNCHANGED <<cfg, guess, x, success, xOrigin, committed,
                   reference, points_error, residuals, required>>

\* the iteration whose error improved: build and solve the normal equations
IterationAccepted ==
    /\ pc = "do"
    /\ \E n \in 0..Last(result.Levels).ValidPixels : \E err \in TotalErrors(n) :
       \E solved \in SolvedIncrements :
         LET newInc == SE3_exp(x)
             kernel == KernelWeight(precision)
             stInitial == StagedInitial(initial, newInc)
             stEstimate == StagedEstimate(estimate, newInc)
             stats == NewIterationStats(itctx.Iteration, n, err,
                                        PriorLogLikelihood(cfg, stInitial))
         IN /\ AcceptIncrement(err, itctx.Error)
            /\ weights' = IterationWeights(itctx, weights, n, kernel)
            /\ precision' = IterationPrecision(itctx, precision, n, weights')
            /\ inc' = newInc
            /\ incOrigin' = xOrigin
            /\ initial' = stInitial
            /\ estimate' = stEstimate
            /\ accept' = TRUE
            /\ x' = solved
            /\ xOrigin' = Origin(itctx.Level, itctx.Iteration)
            /\ result' = PushIteration(result,
                   [stats EXCEPT !.EstimateIncrement = solved,
                                 !.EstimateInformation = EstimateInformation(cfg, n)])
            /\ itctx' = [itctx EXCEPT !.LastError = itctx.Error, !.Error = err,
                                      !.Iteration = @ + 1]
            /\ committed' = Append(committed, [inc |-> newInc, origin |-> xOrigin])
            /\ pc' = IF LoopContinues(accept', x', itctx', cfg)
                     THEN "do" ELSE "level_end"
    /\ UNCHANGED <<cfg, guess, success, rejected,
                   reference, points_error, residuals, required>>

----------------------------------------------------------------------------
(* lines 430-440: the termination criterion, then --itctx_.Level *)

\* mutant: the level counter skips a level
NextLevel_skips(l) == l - 2

\* --itctx_.Level
NextLevel(l) == l - 1

\* three if statements in sequence, each overwriting the one before
TerminationCriterion(prev, acc, xv, it, c) ==
    LET c1 == IF ~acc THEN "LogLikelihoodDecreased" ELSE prev
        c2 == IF lpNormInf(xv) <= c.Precision THEN "IncrementTooSmall" ELSE c1
    IN  IF IterationsExceeded(it, c) THEN "IterationsExceeded" ELSE c2

LevelEnd ==
    /\ pc = "level_end"
    /\ result' = [result EXCEPT !.Levels = SetLast(@,
           [Last(@) EXCEPT !.TerminationCriterion =
               TerminationCriterion(@, accept, x, itctx, cfg)])]
    /\ itctx' = [itctx EXCEPT !.Level = NextLevel(@)]
    /\ pc' = "for"
    /\ UNCHANGED <<cfg, guess, inc, x, initial, estimate, accept, success,
                   xOrigin, incOrigin, committed, rejected,
                   reference, buffers, precision, required>>

----------------------------------------------------------------------------
(* lines 442-449: the result *)

\* the index (from 1) of last_iteration in last_level.Iterations
LastIterationIndex(level) ==
    IF level.TerminationCriterion # "LogLikelihoodDecreased"
    THEN Len(level.Iterations) ELSE Len(level.Iterations) - 1

\* what reading last_iteration can give: an index before the first element
\* reads outside the vector, a rejected iteration never had its
\* EstimateInformation assigned
LastIterationReads(level) ==
    LET idx == LastIterationIndex(level)
    IN  IF idx \in 1..Len(level.Iterations)
        THEN LET s == level.Iterations[idx]
             IN  IF s.EstimateInformation = UninitInfo
                 THEN {[s EXCEPT !.EstimateInformation = g] : g \in GarbageInfo}
                 ELSE {s}
        ELSE {NewIterationStats(0, 0, e, 0) : e \in GarbageErr}

\* mutant: the inverse is missing
ResultTransformation_noInverse(r) == r.value

\* result.Transformation = estimate().inverse().matrix();
ResultTransformation(r) == SE3_inverse(r.value)

\* last_iteration.EstimateInformation * 0.008 * 0.008, in units of 10^-6
ResultInformation(s) == s.EstimateInformation * 8 * 8

\* last_iteration.TDistributionLogLikelihood + last_iteration.PriorLogLikelihood
ResultLogLikelihood(s) ==
    ErrAdd(s.TDistributionLogLikelihood, s.PriorLogLikelihood)

\* mutant: success follows the last acceptance
ReturnValue_fromAccept(s, acc) == s /\ acc

\* return success;
ReturnValue(s, acc) == s

MatchReturn ==
    /\ pc = "for"
    /\ itctx.Level < cfg.LastLevel
    /\ \E last_iteration \in LastIterationReads(Last(result.Levels)) :
         result' = [result EXCEPT
                       !.Transformation = ResultTransformation(estimate),
                       !.Information = ResultInformation(last_iteration),
                       !.LogLikelihood = ResultLogLikelihood(last_iteration)]
    /\ success' = ReturnValue(success, accept)
    /\ pc' = "done"
    /\ UNCHANGED <<cfg, guess, inc, x, initial, estimate, accept, itctx,
                   xOrigin, incOrigin, committed, rejected,
                   reference, buffers, precision, required>>

Next ==
    \/ MatchEntry
    \/ LevelBegin
    \/ IterationRejected
    \/ IterationAccepted
    \/ LevelEnd
    \/ MatchReturn

Spec == Init /\ [][Next]_vars

----------------------------------------------------------------------------
(* A tracker that is used for one call after the other: the members        *)
(* points_error, residuals and weights outlive the call, everything else   *)
(* is set up again by the caller and by lines 136-199.                     *)

\* the configurations of the calls of a sequence
CallConfigs ==
    {c \in Configs : c.MaxIterationsPerLevel = 2 /\ ~c.UseInitialEstimate}

\* configure(config) and the next match(reference, current, result) with a
\* fresh Result
MatchAgain ==
    /\ pc = "done"
    /\ cfg' \in CallConfigs
    /\ guess' \in Guesses
    /\ reference' \in References
    /\ result' = [Transformation |-> guess', Information |-> UninitInfo,
                  LogLikelihood |-> 0, Levels |-> << >>]
    /\ inc' = Identity
    /\ x' = ZTangent(0)
    /\ initial' = Revertable(Identity)
    /\ estimate' = Revertable(Identity)
    /\ accept' = TRUE
    /\ itctx' = [Level |-> 0, Iteration |-> 0, Error |-> DblMax, LastError |-> DblMax]
    /\ success' = FALSE
    /\ precision' = ZeroPrecision
    /\ pc' = "entry"
    /\ xOrigin' = GuessOrigin
    /\ incOrigin' = GuessOrigin
    /\ committed' = << >>
    /\ rejected' = {}
    /\ UNCHANGED <<buffers, required>>

InitCalls == Init /\ cfg \in CallConfigs

NextCalls == Next \/ MatchAgain

SpecCalls == InitCalls /\ [][NextCalls]_vars

----------------------------------------------------------------------------
(* Helpers of the properties *)

CurrentLevel == Last(result.Levels)
LevelsDone == pc = "for" /\ result.Levels # << >>

\* i_k * ... * i_1 for the committed increments i_1, ..., i_k
RECURSIVE ProductOf(_)
ProductOf(s) ==
    IF s = << >> THEN Identity
    ELSE SE3_mul(Last(s).inc, ProductOf(SubSeq(s, 1, Len(s) - 1)))

\* line 423 runs only in an accepted iteration
WasAccepted(stats) == stats.EstimateInformation # UninitInfo

----------------------------------------------------------------------------
(* C1: for every level exactly one termination reason is recorded, in the  *)
(* priority order rejected > converged > exhausted: a rejected last        *)
(* iteration records LogLikelihoodDecreased, an accepted one with an       *)
(* increment at or below Precision records IncrementTooSmall, even when    *)
(* the iterations are exhausted as well.                                   *)
C1_TerminationPriority ==
    LevelsDone =>
        LET crit == CurrentLevel.TerminationCriterion
        IN  /\ crit \in TerminationCriteria
            /\ ~accept => crit = "LogLikelihoodDecreased"
            /\ (accept /\ lpNormInf(x) <= cfg.Precision) => crit = "IncrementTooSmall"

(* C2: an iteration whose new error is not strictly below LastError leaves *)
(* initial and estimate at the values they had before the iteration, and   *)
(* the level runs no further iteration.                                    *)
C2_RejectRestoresPoses ==
    [][ /\ (pc = "do" /\ ~ErrLess(itctx'.Error, itctx'.LastError)) =>
              /\ initial'.value = initial.value
              /\ estimate'.value = estimate.value
              /\ pc' = "level_end"
        /\ pc = "level_end" =>
              /\ pc' = "for"
              /\ Len(result'.Levels) = Len(result.Levels)
              /\ Last(result'.Levels).Iterations = CurrentLevel.Iterations
      ]_vars

C2_Witness ==
    /\ pc = "level_end"
    /\ ~accept
    /\ Len(CurrentLevel.Iterations) >= 2
    /\ inc # Identity
    /\ estimate.value # Identity

(* C3: an increment rejected at a level is never committed at a later      *)
(* level: the later levels continue from the last good pose.  Stated for   *)
(* the increments that move the pose and were solved from the data, which  *)
(* the claim covers along with the guess.                                  *)
C3_RejectedNeverCommitted ==
    [][ ( /\ Len(committed') > Len(committed)
          /\ Last(committed').inc # Identity
          /\ Last(committed').origin # GuessOrigin ) =>
            Last(committed').origin \notin rejected ]_vars

(* C4: Result.Information and Result.LogLikelihood come from the last      *)
(* accepted iteration of the final level: the last iteration when it was   *)
(* accepted, the one before it when it was rejected; never from a rejected *)
(* iteration.                                                              *)
C4_ResultFromLastAccepted ==
    pc = "done" =>
        LET its == CurrentLevel.Iterations
            k == IF accept THEN Len(its) ELSE Len(its) - 1
        IN  /\ k >= 1
            /\ WasAccepted(its[k])
            /\ result.Information = its[k].EstimateInformation * 8 * 8
            /\ result.LogLikelihood =
                   ErrAdd(its[k].TDistributionLogLikelihood, its[k].PriorLogLikelihood)

(* C5: Result.Transformation is the inverse of estimate after the final    *)
(* level, and estimate is the product of the accepted increments only: an  *)
(* increment rejected at the final level is not in it.                     *)
C5_TransformationIsInverse ==
    pc = "done" =>
        /\ result.Transformation = SE3_inverse(estimate.value)
        /\ estimate.value = ProductOf(committed)
        /\ SE3_mul(result.Transformation, ProductOf(committed)) = Identity

C5_Witness ==
    /\ pc = "done"
    /\ ~accept
    /\ Len(CurrentLevel.Iterations) >= 2
    /\ inc # Identity
    /\ result.Transformation # estimate.value

(* C6: at every level the number of iterations run, and itctx.Iteration,   *)
(* never exceed MaxIterationsPerLevel, for every sane configuration.       *)
C6_IterationsBounded ==
    /\ itctx.Iteration <= cfg.MaxIterationsPerLevel
    /\ \A i \in 1..Len(result.Levels) :
           Len(result.Levels[i].Iterations) <= cfg.MaxIterationsPerLevel

(* C6, amended: the body of the do/while loop runs before its condition   *)
(* is tested, so a level runs at least one iteration; the number of        *)
(* iterations run and itctx.Iteration never exceed the larger of 1 and     *)
(* MaxIterationsPerLevel.                                                  *)
IterationLimit == IF cfg.MaxIterationsPerLevel = 0 THEN 1 ELSE cfg.MaxIterationsPerLevel

C6_IterationsBoundedAtLeastOne ==
    /\ itctx.Iteration <= IterationLimit
    /\ \A i \in 1..Len(result.Levels) :
           Len(result.Levels[i].Iterations) <= IterationLimit

C6_Witness ==
    /\ pc = "level_end"
    /\ cfg.MaxIterationsPerLevel >= 2
    /\ itctx.Iteration = cfg.MaxIterationsPerLevel
    /\ Len(CurrentLevel.Iterations) = cfg.MaxIterationsPerLevel
    /\ lpNormInf(x) > cfg.Precision

(* C7: the inner loop stops after an iteration exactly when accept is      *)
(* false, or the increment is at or below Precision, or Iteration has      *)
(* reached MaxIterationsPerLevel; otherwise it runs another iteration.     *)
C7_LoopStopsExactlyWhen ==
    [][ pc = "do" =>
          /\ pc' \in {"do", "level_end"}
          /\ pc' = "level_end" <=>
                \/ ~accept'
                \/ lpNormInf(x') <= cfg.Precision
                \/ itctx'.Iteration >= cfg.MaxIterationsPerLevel
      ]_vars

C7_Witness ==
    /\ pc = "level_end"
    /\ accept
    /\ Len(CurrentLevel.Iterations) >= 2
    /\ lpNormInf(x) <= cfg.Precision
    /\ itctx.Iteration < cfg.MaxIterationsPerLevel

(* C8: within a level the errors of the accepted iterations are strictly   *)
(* decreasing in iteration order.                                          *)
C8_ErrorsStrictlyDecrease ==
    \A l \in 1..Len(result.Levels) :
        LET its == result.Levels[l].Iterations
        IN  \A i, j \in 1..Len(its) :
                (i < j /\ WasAccepted(its[j])) =>
                    /\ WasAccepted(its[i])
                    /\ ErrLess(its[j].TDistributionLogLikelihood,
                               its[i].TDistributionLogLikelihood)

C8_Witness ==
    \E l \in 1..Len(result.Levels) :
        /\ Len(result.Levels[l].Iterations) >= 2
        /\ WasAccepted(result.Levels[l].Iterations[2])

(* C9: when no level has a valid point the inner loop runs zero iterations *)
(* at every level and the returned pose is the initial guess (identity     *)
(* without UseInitialEstimate).                                            *)
C9_NoPointsReturnsGuess ==
    (pc = "done" /\ \A l \in 1..Len(result.Levels) : result.Levels[l].ValidPixels = 0) =>
        /\ \A l \in 1..Len(result.Levels) : Len(result.Levels[l].Iterations) = 0
        /\ result.Transformation = EntryTransformation(cfg, guess)

(* C9, amended: when no level has a valid point every level runs exactly   *)
(* one iteration, which is rejected, nothing is committed and the pose     *)
(* returned is the identity whatever the guess.                            *)
NoValidPoints == \A l \in 1..Len(result.Levels) : result.Levels[l].ValidPixels = 0

C9_NoPointsReturnsIdentity ==
    (pc = "done" /\ NoValidPoints) =>
        /\ \A l \in 1..Len(result.Levels) :
               /\ Len(result.Levels[l].Iterations) = 1
               /\ ~WasAccepted(result.Levels[l].Iterations[1])
        /\ committed = << >>
        /\ result.Transformation = Identity

C9_Witness ==
    /\ pc = "done"
    /\ NoValidPoints
    /\ Len(result.Levels) >= 2
    /\ cfg.UseInitialEstimate
    /\ guess # Identity

(* C10: without UseInitialEstimate the guess is discarded: the state the   *)
(* call starts its levels from is the one every other guess gives, the     *)
(* first increment applied is the identity, and the result is the inverse  *)
(* of the product of the increments solved from the data alone.            *)
C10_GuessDiscarded ==
    (~cfg.UseInitialEstimate /\ pc # "entry") =>
        /\ \A g \in Poses : EntryTransformation(cfg, g) = EntryTransformation(cfg, guess)
        /\ (result.Levels = << >>) =>
               /\ result.Transformation = Identity
               /\ inc = Identity
               /\ initial = Revertable(Identity)
               /\ estimate = Revertable(Identity)
        /\ \A i \in 1..Len(committed) :
               committed[i].origin = GuessOrigin => committed[i].inc = Identity
        /\ (result.Levels # << >> /\ itctx.Level = cfg.FirstLevel
             /\ CurrentLevel.Iterations = << >>) => x = ZTangent(0)

C10_Witness ==
    /\ pc = "done"
    /\ ~cfg.UseInitialEstimate
    /\ guess # Identity
    /\ Len(committed) >= 2

----------------------------------------------------------------------------
(* C12: a call started with an empty Result processes the levels           *)
(* FirstLevel, FirstLevel-1, ..., LastLevel in that order, each once, and  *)
(* appends one LevelStats per level whose Id is that level.                *)
C12_LevelsInOrder ==
    /\ \A i \in 1..Len(result.Levels) : result.Levels[i].Id = cfg.FirstLevel - (i - 1)
    /\ \A i \in 1..Len(result.Levels) : result.Levels[i].Id >= cfg.LastLevel
    /\ pc \in {"do", "level_end"} => CurrentLevel.Id = itctx.Level
    /\ pc = "done" => Len(result.Levels) = cfg.FirstLevel - cfg.LastLevel + 1

C12_Witness ==
    /\ pc = "done"
    /\ Len(result.Levels) >= 2
    /\ result.Levels[1].Id = cfg.FirstLevel
    /\ Last(result.Levels).Id = cfg.LastLevel

(* C13: match returns success = true on every path.                        *)
C13_AlwaysSuccess ==
    pc = "done" => success = TRUE

C13_Witness ==
    /\ pc = "done"
    /\ ~accept
    /\ \E l \in 1..Len(result.Levels) : result.Levels[l].ValidPixels = 0
    /\ \E l \in 1..Len(result.Levels) :
           result.Levels[l].TerminationCriterion = "IterationsExceeded"

(* C14: every level starts with Iteration = 0 and Error = the largest      *)
(* finite double, so an iteration's error is only compared with an error   *)
(* of the same level, and the first iteration of a level is accepted       *)
(* exactly when its error is below that maximum.                           *)
C14_ContextResetPerLevel ==
    [][ /\ (pc = "for" /\ pc' = "do") =>
              /\ itctx'.Iteration = 0
              /\ itctx'.Error = DblMax
        /\ (pc = "do" /\ CurrentLevel.Iterations = << >>) =>
              /\ itctx'.LastError = DblMax
              /\ accept' <=> ErrLess(itctx'.Error, DblMax)
        /\ (pc = "do" /\ CurrentLevel.Iterations # << >>) =>
              itctx'.LastError = Last(CurrentLevel.Iterations).TDistributionLogLikelihood
      ]_vars

\* the first iteration of the second level is accepted with an error that
\* is not below the last error of the first level
C14_Witness ==
    /\ Len(result.Levels) >= 2
    /\ result.Levels[2].Iterations # << >>
    /\ WasAccepted(result.Levels[2].Iterations[1])
    /\ ~ErrLess(result.Levels[2].Iterations[1].TDistributionLogLikelihood,
                Last(result.Levels[1].Iterations).TDistributionLogLikelihood)

(* C16: in the first iteration of the first level the increment applied is *)
(* the guess (identity without UseInitialEstimate): the update makes       *)
(* estimate the guess and initial the identity.                            *)
FirstIterationOfCall ==
    /\ pc = "do"
    /\ Len(result.Levels) = 1
    /\ CurrentLevel.Iterations = << >>

C16_FirstIncrementIsGuess ==
    [][ FirstIterationOfCall =>
          /\ inc' = EntryTransformation(cfg, guess)
          /\ accept' =>
                /\ estimate'.value = EntryTransformation(cfg, guess)
                /\ initial'.value = Identity
      ]_vars

\* the first iteration of a call has applied a guess that is not its own
\* inverse and has been accepted
C16_Witness ==
    /\ pc \in {"do", "level_end"}
    /\ Len(result.Levels) = 1
    /\ Len(CurrentLevel.Iterations) = 1
    /\ accept
    /\ cfg.UseInitialEstimate
    /\ SE3_inverse(guess) # guess
    /\ estimate.value = guess

(* C18: the read of the final level's iteration statistics is in bounds:   *)
(* a final level recorded as LogLikelihoodDecreased holds at least two     *)
(* iteration records.                                                      *)
C18_LastIterationInBounds ==
    (pc = "for" /\ itctx.Level < cfg.LastLevel) =>
        /\ LastIterationIndex(CurrentLevel) \in 1..Len(CurrentLevel.Iterations)
        /\ CurrentLevel.TerminationCriterion = "LogLikelihoodDecreased" =>
               Len(CurrentLevel.Iterations) >= 2

(* C19: a solved increment is applied only at the start of the next        *)
(* iteration of the same level; the increment solved in the iteration that *)
(* ends the final level by convergence or exhaustion is applied to no pose *)
(* while its information matrix is the one reported.                       *)
CommittedOrigins == {committed[i].origin : i \in 1..Len(committed)}

C19_AppliedInNextIterationOnly ==
    /\ (pc = "do" /\ xOrigin # GuessOrigin) =>
           xOrigin = Origin(itctx.Level, itctx.Iteration - 1)
    /\ (pc = "done" /\ accept) =>
           /\ xOrigin \notin CommittedOrigins \cup rejected
           /\ xOrigin = Origin(cfg.LastLevel, Len(CurrentLevel.Iterations) - 1)
           /\ result.Information = Last(CurrentLevel.Iterations).EstimateInformation * 8 * 8

(* C20: initial and estimate move in lockstep: with the committed          *)
(* increments i1..ik, estimate = ik * ... * i1 and                         *)
(* initial = ik^-1 * ... * i1^-1 * guess.                                  *)
RECURSIVE InverseProductOf(_)
InverseProductOf(s) ==
    IF s = << >> THEN Identity
    ELSE SE3_mul(SE3_inverse(Last(s).inc), InverseProductOf(SubSeq(s, 1, Len(s) - 1)))

C20_PosesInLockstep ==
    pc # "entry" =>
        /\ estimate.value = ProductOf(committed)
        /\ initial.value =
               SE3_mul(InverseProductOf(committed), EntryTransformation(cfg, guess))

\* two committed increments that do not commute, then a rejection
C20_Witness ==
    /\ pc = "level_end"
    /\ ~accept
    /\ inc # Identity
    /\ Len(committed) >= 2
    /\ SE3_mul(committed[1].inc, committed[2].inc) # SE3_mul(committed[2].inc, committed[1].inc)

----------------------------------------------------------------------------
(* C11: at every level the weights used in the first iteration are exactly *)
(* 1 for every valid residual, whatever an earlier level or an earlier     *)
(* call left in the reused weight buffer.                                  *)
ValidResiduals(level) == 1..Last(level.Iterations).ValidConstraints

C11_FirstIterationUnitWeights ==
    [][ (pc = "do" /\ IsFirstIterationOnLevel(itctx)) =>
          /\ Last(CurrentLevel'.Iterations).ValidConstraints <= Len(weights')
          /\ \A i \in ValidResiduals(CurrentLevel') : weights'[i] = UnitWeight
      ]_vars

\* the first iteration of a call has run with a valid residual on a buffer
\* that an earlier call with a larger requirement left behind
C11_Witness ==
    /\ pc \in {"do", "level_end"}
    /\ Len(CurrentLevel.Iterations) = 1
    /\ ValidResiduals(CurrentLevel) # {}
    /\ \A i \in ValidResiduals(CurrentLevel) : weights[i] = UnitWeight
    /\ Len(weights) > getMaximumNumberOfPoints(reference, cfg.LastLevel)

(* C15: on the first iteration of a level scale estimation is skipped: the *)
(* precision is not recomputed in that iteration.                          *)
C15_PrecisionKeptInFirstIteration ==
    [][ (pc = "do" /\ IsFirstIterationOnLevel(itctx)) => precision' = precision ]_vars

(* C15, amended: the first iteration of a level skips the weight           *)
(* computation only; the precision is zero at the start of the level and   *)
(* is recomputed in every iteration, the first included, from the          *)
(* residuals and the weights of that iteration.                            *)
C15_PrecisionRecomputedEveryIteration ==
    [][ /\ (pc = "for" /\ pc' = "do") => precision' = ZeroPrecision
        /\ pc = "do" =>
              /\ precision' = ScaleInverse(Last(CurrentLevel'.Iterations).ValidConstraints,
                                           weights')
              /\ precision' # ZeroPrecision
        /\ (pc = "do" /\ IsFirstIterationOnLevel(itctx)) =>
              /\ precision = ZeroPrecision
              /\ \A i \in ValidResiduals(CurrentLevel') : weights'[i] = UnitWeight
      ]_vars

\* after the first iteration of a level the precision is the one of its
\* residuals with unit weights
C15_Witness ==
    /\ pc \in {"do", "level_end"}
    /\ Len(CurrentLevel.Iterations) = 1
    /\ precision = ScaleInverse(1, <<UnitWeight>>)

(* C17: over any sequence of match calls the sizes of points_error,        *)
(* residuals and weights never decrease, and during a call each is at      *)
(* least getMaximumNumberOfPoints(LastLevel) of the call's reference: it   *)
(* is the largest requirement seen so far.                                 *)
BufferSizes == <<points_error, residuals, Len(weights)>>

C17_BuffersOnlyGrow ==
    [][ /\ \A b \in 1..3 : BufferSizes'[b] >= BufferSizes[b]
        /\ pc' # "entry" =>
              \A b \in 1..3 :
                 /\ BufferSizes'[b] >= getMaximumNumberOfPoints(reference', cfg'.LastLevel)
                 /\ BufferSizes'[b] = required'
      ]_vars

\* a call runs on buffers larger than its own requirement
C17_Witness ==
    /\ pc = "do"
    /\ \A b \in 1..3 :
          BufferSizes[b] > getMaximumNumberOfPoints(reference, cfg.LastLevel)
    /\ getMaximumNumberOfPoints(reference, cfg.LastLevel) > 0

====
